---- MODULE Spec2Model ----
\* Model of scripts/main.py: the per-page OCR pipeline
\* extract_text_and_image_from_pdf and the prompt table behind get_prompt.
\*
\* Strings are sequences of Unicode code points, so that concatenation,
\* str.strip() and the substring test `in` are computed as Python computes
\* them.  None is the one-element sequence << -1 >>, which is no string.
EXTENDS Integers, Sequences, FiniteSets, TLC

VARIABLES
    doc_exists,      \* os.path.exists(original_file_path)
    doc_pages,       \* len(PdfReader(f).pages) of the source document
    configured_task_type, \* the task type the caller wants for the run
    markdown,        \* parameter markdown
    dest_before,     \* content of output_json_path before the run
    dest_file,       \* content of output_json_path, <<>> when absent
    writes,          \* number of writes made to any file
    pc,              \* position in the function
    err,             \* exception that left the function, "" when none
    total_pages, task_type, text_content,
    range_next,      \* position of the range(total_pages) iterator
    page_num, page, image_base64, anchor_text, PROMPT, messages,
    response,        \* the completion returned by the service, <<>> when unbound
    text_output, final_output,
    calls,           \* collaborator calls made so far, in order
    responses        \* contents returned by the service so far, in order

vars == << doc_exists, doc_pages, configured_task_type, markdown,
           dest_before, dest_file, writes, pc, err, total_pages, task_type,
           text_content, range_next, page_num, page, image_base64,
           anchor_text, PROMPT, messages, response, text_output,
           final_output, calls, responses >>

-----------------------------------------------------------------------------
\* Bounds of the model

MaxPages == 3
MaxRawLen == 2

-----------------------------------------------------------------------------
\* String literals of the source, as code points

NL == 10
None == << -1 >>

\*   Below is an image of a document page along with its dimensions.
\*   Simply return the markdown representation of this document,
\*   presenting tables in markdown format as they naturally appear.
\*   If the document contains images, use a placeholder like dummy.png for
\*   each image.
\*   Your final output must be in JSON format with a single key
\*   `natural_text` containing the response.
\*   
DefaultInstruction ==
    << 66, 101, 108, 111, 119, 32, 105, 115, 32, 97, 110, 32, 105, 109, 97, 103, 101, 32,
    111, 102, 32, 97, 32, 100, 111, 99, 117, 109, 101, 110, 116, 32, 112, 97, 103, 101,
    32, 97, 108, 111, 110, 103, 32, 119, 105, 116, 104, 32, 105, 116, 115, 32, 100, 105,
    109, 101, 110, 115, 105, 111, 110, 115, 46, 32, 83, 105, 109, 112, 108, 121, 32, 114,
    101, 116, 117, 114, 110, 32, 116, 104, 101, 32, 109, 97, 114, 107, 100, 111, 119, 110,
    32, 114, 101, 112, 114, 101, 115, 101, 110, 116, 97, 116, 105, 111, 110, 32, 111, 102,
    32, 116, 104, 105, 115, 32, 100, 111, 99, 117, 109, 101, 110, 116, 44, 32, 112, 114,
    101, 115, 101, 110, 116, 105, 110, 103, 32, 116, 97, 98, 108, 101, 115, 32, 105, 110,
    32, 109, 97, 114, 107, 100, 111, 119, 110, 32, 102, 111, 114, 109, 97, 116, 32, 97,
    115, 32, 116, 104, 101, 121, 32, 110, 97, 116, 117, 114, 97, 108, 108, 121, 32, 97,
    112, 112, 101, 97, 114, 46, 10, 73, 102, 32, 116, 104, 101, 32, 100, 111, 99, 117,
    109, 101, 110, 116, 32, 99, 111, 110, 116, 97, 105, 110, 115, 32, 105, 109, 97, 103,
    101, 115, 44, 32, 117, 115, 101, 32, 97, 32, 112, 108, 97, 99, 101, 104, 111, 108,
    100, 101, 114, 32, 108, 105, 107, 101, 32, 100, 117, 109, 109, 121, 46, 112, 110, 103,
    32, 102, 111, 114, 32, 101, 97, 99, 104, 32, 105, 109, 97, 103, 101, 46, 10, 89,
    111, 117, 114, 32, 102, 105, 110, 97, 108, 32, 111, 117, 116, 112, 117, 116, 32, 109,
    117, 115, 116, 32, 98, 101, 32, 105, 110, 32, 74, 83, 79, 78, 32, 102, 111, 114,
    109, 97, 116, 32, 119, 105, 116, 104, 32, 97, 32, 115, 105, 110, 103, 108, 101, 32,
    107, 101, 121, 32, 96, 110, 97, 116, 117, 114, 97, 108, 95, 116, 101, 120, 116, 96,
    32, 99, 111, 110, 116, 97, 105, 110, 105, 110, 103, 32, 116, 104, 101, 32, 114, 101,
    115, 112, 111, 110, 115, 101, 46, 10 >>

\*   Below is an image of a document page, along with its dimensions and
\*   possibly some raw textual content previously extracted from it. Note
\*   that the text extraction may be incomplete or partially missing.
\*   Carefully consider both the layout and any available text to
\*   reconstruct the document accurately.
\*   Your task is to return the markdown representation of this document,
\*   presenting tables in HTML format as they naturally appear.
\*   If the document contains images or figures, analyze them and include
\*   the tag <figure>IMAGE_ANALYSIS</figure> in the appropriate location.
\*   Your final output must be in JSON format with a single key
\*   `natural_text` containing the response.
\*   
StructureInstruction ==
    << 66, 101, 108, 111, 119, 32, 105, 115, 32, 97, 110, 32, 105, 109, 97, 103, 101, 32,
    111, 102, 32, 97, 32, 100, 111, 99, 117, 109, 101, 110, 116, 32, 112, 97, 103, 101,
    44, 32, 97, 108, 111, 110, 103, 32, 119, 105, 116, 104, 32, 105, 116, 115, 32, 100,
    105, 109, 101, 110, 115, 105, 111, 110, 115, 32, 97, 110, 100, 32, 112, 111, 115, 115,
    105, 98, 108, 121, 32, 115, 111, 109, 101, 32, 114, 97, 119, 32, 116, 101, 120, 116,
    117, 97, 108, 32, 99, 111, 110, 116, 101, 110, 116, 32, 112, 114, 101, 118, 105, 111,
    117, 115, 108, 121, 32, 101, 120, 116, 114, 97, 99, 116, 101, 100, 32, 102, 114, 111,
    109, 32, 105, 116, 46, 32, 78, 111, 116, 101, 32, 116, 104, 97, 116, 32, 116, 104,
    101, 32, 116, 101, 120, 116, 32, 101, 120, 116, 114, 97, 99, 116, 105, 111, 110, 32,
    109, 97, 121, 32, 98, 101, 32, 105, 110, 99, 111, 109, 112, 108, 101, 116, 101, 32,
    111, 114, 32, 112, 97, 114, 116, 105, 97, 108, 108, 121, 32, 109, 105, 115, 115, 105,
    110, 103, 46, 32, 67, 97, 114, 101, 102, 117, 108, 108, 121, 32, 99, 111, 110, 115,
    105, 100, 101, 114, 32, 98, 111, 116, 104, 32, 116, 104, 101, 32, 108, 97, 121, 111,
    117, 116, 32, 97, 110, 100, 32, 97, 110, 121, 32, 97, 118, 97, 105, 108, 97, 98,
    108, 101, 32, 116, 101, 120, 116, 32, 116, 111, 32, 114, 101, 99, 111, 110, 115, 116,
    114, 117, 99, 116, 32, 116, 104, 101, 32, 100, 111, 99, 117, 109, 101, 110, 116, 32,
    97, 99, 99, 117, 114, 97, 116, 101, 108, 121, 46, 10, 89, 111, 117, 114, 32, 116,
    97, 115, 107, 32, 105, 115, 32, 116, 111, 32, 114, 101, 116, 117, 114, 110, 32, 116,
    104, 101, 32, 109, 97, 114, 107, 100, 111, 119, 110, 32, 114, 101, 112, 114, 101, 115,
    101, 110, 116, 97, 116, 105, 111, 110, 32, 111, 102, 32, 116, 104, 105, 115, 32, 100,
    111, 99, 117, 109, 101, 110, 116, 44, 32, 112, 114, 101, 115, 101, 110, 116, 105, 110,
    103, 32, 116, 97, 98, 108, 101, 115, 32, 105, 110, 32, 72, 84, 77, 76, 32, 102,
    111, 114, 109, 97, 116, 32, 97, 115, 32, 116, 104, 101, 121, 32, 110, 97, 116, 117,
    114, 97, 108, 108, 121, 32, 97, 112, 112, 101, 97, 114, 46, 10, 73, 102, 32, 116,
    104, 101, 32, 100, 111, 99, 117, 109, 101, 110, 116, 32, 99, 111, 110, 116, 97, 105,
    110, 115, 32, 105, 109, 97, 103, 101, 115, 32, 111, 114, 32, 102, 105, 103, 117, 114,
    101, 115, 44, 32, 97, 110, 97, 108, 121, 122, 101, 32, 116, 104, 101, 109, 32, 97,
    110, 100, 32, 105, 110, 99, 108, 117, 100, 101, 32, 116, 104, 101, 32, 116, 97, 103,
    32, 60, 102, 105, 103, 117, 114, 101, 62, 73, 77, 65, 71, 69, 95, 65, 78, 65,
    76, 89, 83, 73, 83, 60, 47, 102, 105, 103, 117, 114, 101, 62, 32, 105, 110, 32,
    116, 104, 101, 32, 97, 112, 112, 114, 111, 112, 114, 105, 97, 116, 101, 32, 108, 111,
    99, 97, 116, 105, 111, 110, 46, 10, 89, 111, 117, 114, 32, 102, 105, 110, 97, 108,
    32, 111, 117, 116, 112, 117, 116, 32, 109, 117, 115, 116, 32, 98, 101, 32, 105, 110,
    32, 74, 83, 79, 78, 32, 102, 111, 114, 109, 97, 116, 32, 119, 105, 116, 104, 32,
    97, 32, 115, 105, 110, 103, 108, 101, 32, 107, 101, 121, 32, 96, 110, 97, 116, 117,
    114, 97, 108, 95, 116, 101, 120, 116, 96, 32, 99, 111, 110, 116, 97, 105, 110, 105,
    110, 103, 32, 116, 104, 101, 32, 114, 101, 115, 112, 111, 110, 115, 101, 46, 10 >>

\*   RAW_TEXT_START
RAW_TEXT_START ==
    << 82, 65, 87, 95, 84, 69, 88, 84, 95, 83, 84, 65, 82, 84 >>

\*   RAW_TEXT_END
RAW_TEXT_END ==
    << 82, 65, 87, 95, 84, 69, 88, 84, 95, 69, 78, 68 >>

\*   Invalid PROMPT_NAME provided.
InvalidPromptText ==
    << 73, 110, 118, 97, 108, 105, 100, 32, 80, 82, 79, 77, 80, 84, 95, 78, 65, 77,
    69, 32, 112, 114, 111, 118, 105, 100, 101, 100, 46 >>

Sentinel ==
    << 3592, 3638, 3591, 3648, 3619, 3637, 3618, 3609 >>

\*   data:image/png;base64,
DataUrlPrefix ==
    << 100, 97, 116, 97, 58, 105, 109, 97, 103, 101, 47, 112, 110, 103, 59, 98, 97, 115,
    101, 54, 52, 44 >>

-----------------------------------------------------------------------------
\* Python string operations

\* str.isspace() of one character
IsSpace(c) ==
    \/ c \in 9..13
    \/ c \in 28..32
    \/ c \in {133, 160, 5760, 8232, 8233, 8239, 8287, 12288}
    \/ c \in 8192..8202

RECURSIVE LStrip(_)
LStrip(s) ==
    IF s = <<>> THEN <<>>
    ELSE IF IsSpace(Head(s)) THEN LStrip(Tail(s)) ELSE s

RECURSIVE RStrip(_)
RStrip(s) ==
    IF s = <<>> THEN <<>>
    ELSE IF IsSpace(s[Len(s)]) THEN RStrip(SubSeq(s, 1, Len(s) - 1)) ELSE s

\* str.strip()
Strip(s) == RStrip(LStrip(s))

\* sub in s
Contains(s, sub) ==
    \E i \in 0..(Len(s) - Len(sub)) : SubSeq(s, i + 1, i + Len(sub)) = sub

-----------------------------------------------------------------------------
\* PROMPTS_SYS and get_prompt

PromptDefaultStripped(base_text) ==
    DefaultInstruction \o RAW_TEXT_START \o <<NL>> \o Strip(base_text)
        \o <<NL>> \o RAW_TEXT_END
PromptDefault(base_text) ==
    DefaultInstruction \o RAW_TEXT_START \o <<NL>> \o base_text
        \o <<NL>> \o RAW_TEXT_END

PromptStructure(base_text) ==
    StructureInstruction \o RAW_TEXT_START \o <<NL>> \o base_text
        \o <<NL>> \o RAW_TEXT_END

PROMPTS_SYS_keys == {"default", "structure"}

PROMPTS_SYS(key, base_text) ==
    IF key = "default" THEN PromptDefault(base_text)
    ELSE PromptStructure(base_text)

\* lambda x: "Invalid PROMPT_NAME provided."
InvalidLambda(x) == InvalidPromptText

\* get_prompt(prompt_name)(x)
get_prompt_echo(prompt_name, x) ==
    IF prompt_name \in PROMPTS_SYS_keys THEN PROMPTS_SYS(prompt_name, x)
    ELSE InvalidPromptText \o x
get_prompt(prompt_name, x) ==
    IF prompt_name \in PROMPTS_SYS_keys THEN PROMPTS_SYS(prompt_name, x)
    ELSE InvalidLambda(x)

-----------------------------------------------------------------------------
\* The environment of a run

original_file_path == "test.pdf"
output_json_path == "test_orc.json"

target_longest_image_dim == 1800
target_length == 8000

\* what render_pdf_to_base64png returns for a page: a base64 string
RenderedPng(p) == << 105, 86, 66, 79, 48 + p >>

\* what get_anchor_text may return for a page
AnchorTexts(p) == { <<>>, << 112, 48 + p >> }

\* message.content values the service may return
Responses ==
    { <<>>,
      << 32, 98, NL >>,
      << 120 >> \o Sentinel \o << 121 >>,
      SubSeq(Sentinel, 1, 4),
      SubSeq(Sentinel, 5, 8) }

Contents == Responses \cup {None}

\* a file left at output_json_path by an earlier run
OldRun ==
    [ natural_text |-> << 111, 108, 100 >>, markdown |-> TRUE,
      task_type |-> "default", total_pages |-> 1,
      original_file_path |-> "old.pdf",
      output_json_path |-> output_json_path ]

-----------------------------------------------------------------------------
\* extract_text_and_image_from_pdf

Locals0 ==
    /\ total_pages = 0
    /\ task_type = ""
    /\ text_content = <<>>
    /\ range_next = 0
    /\ page_num = 0
    /\ page = 0
    /\ image_base64 = <<>>
    /\ anchor_text = <<>>
    /\ PROMPT = <<>>
    /\ messages = <<>>
    /\ response = <<>>
    /\ text_output = <<>>
    /\ final_output = <<>>

Init ==
    /\ doc_exists \in BOOLEAN
    /\ doc_pages \in 0..MaxPages
    /\ configured_task_type \in {"default", "structure"}
    /\ markdown \in BOOLEAN
    /\ dest_before \in { <<>>, << OldRun >> }
    /\ dest_file = dest_before
    /\ writes = 0
    /\ pc = "enter"
    /\ err = ""
    /\ Locals0
    /\ calls = <<>>
    /\ responses = <<>>

env == << doc_exists, doc_pages, configured_task_type, markdown, dest_before >>

\* raise: the exception leaves the function, nothing else changes
RaiseSwallowed(e) ==
    /\ pc' = "assemble"
    /\ err' = e
Raise(e) ==
    /\ pc' = "raised"
    /\ err' = e

\* line 56: os.path.exists(original_file_path)
PathExistsAlways(exists) == TRUE
PathExists(exists) == exists

\* lines 56-57
EnterMissing ==
    /\ pc = "enter"
    /\ ~PathExists(doc_exists)
    /\ Raise("FileNotFoundError")
    /\ UNCHANGED << env, dest_file, writes, total_pages, task_type,
                    text_content, range_next, page_num, page, image_base64,
                    anchor_text, PROMPT, messages, response, text_output, final_output,
                    calls, responses >>

\* get_total_pages(filename)
get_total_pages(filename) == doc_pages

\* line 63
HardcodedTaskType == "default"

\* lines 56-66
Enter ==
    /\ pc = "enter"
    /\ PathExists(doc_exists)
    /\ total_pages' = get_total_pages(original_file_path)
    /\ task_type' = HardcodedTaskType
    /\ text_content' = <<>>
    /\ pc' = "for"
    /\ UNCHANGED << env, dest_file, writes, err, range_next, page_num, page,
                    image_base64, anchor_text, PROMPT, messages, response, text_output,
                    final_output, calls, responses >>

\* line 69: range(total_pages) has a next element
RangeHasNextOffByOne(i, n) == i < n - 1
RangeHasNextInclusive(i, n) == i <= n
RangeHasNext(i, n) == i < n

\* lines 69-70: the loop takes its next page
ForNextZeroBased ==
    /\ pc = "for"
    /\ RangeHasNext(range_next, total_pages)
    /\ page_num' = range_next
    /\ range_next' = range_next + 1
    /\ page' = page_num'
    /\ pc' = "render"
    /\ UNCHANGED << env, dest_file, writes, err, total_pages, task_type,
                    text_content, image_base64, anchor_text, PROMPT, messages,
                    response, text_output, final_output, calls, responses >>
ForNext ==
    /\ pc = "for"
    /\ RangeHasNext(range_next, total_pages)
    /\ page_num' = range_next
    /\ range_next' = range_next + 1
    /\ page' = page_num' + 1
    /\ pc' = "render"
    /\ UNCHANGED << env, dest_file, writes, err, total_pages, task_type,
                    text_content, image_base64, anchor_text, PROMPT, messages, response,
                    text_output, final_output, calls, responses >>

\* line 69: the range is exhausted, the loop ends
ForExhaustedNothingDone ==
    /\ pc = "for"
    /\ ~RangeHasNext(range_next, total_pages)
    /\ pc' = IF total_pages = 0 THEN "done" ELSE "assemble"
    /\ UNCHANGED << env, dest_file, writes, err, total_pages, task_type,
                    text_content, range_next, page_num, page, image_base64,
                    anchor_text, PROMPT, messages, response, text_output,
                    final_output, calls, responses >>
ForExhausted ==
    /\ pc = "for"
    /\ ~RangeHasNext(range_next, total_pages)
    /\ pc' = "assemble"
    /\ UNCHANGED << env, dest_file, writes, err, total_pages, task_type,
                    text_content, range_next, page_num, page, image_base64,
                    anchor_text, PROMPT, messages, response, text_output, final_output,
                    calls, responses >>

\* lines 73-75: render_pdf_to_base64png returns
Render ==
    /\ pc = "render"
    /\ calls' = Append(calls, << "render", page, target_longest_image_dim >>)
    /\ image_base64' = RenderedPng(page)
    /\ pc' = "extract"
    /\ UNCHANGED << env, dest_file, writes, err, total_pages, task_type,
                    text_content, range_next, page_num, page, anchor_text,
                    PROMPT, messages, response, text_output, final_output, responses >>

\* lines 73-75: render_pdf_to_base64png raises
RenderRaises ==
    /\ pc = "render"
    /\ calls' = Append(calls, << "render", page, target_longest_image_dim >>)
    /\ Raise("RenderError")
    /\ UNCHANGED << env, dest_file, writes, total_pages, task_type,
                    text_content, range_next, page_num, page, image_base64,
                    anchor_text, PROMPT, messages, response, text_output, final_output,
                    responses >>

\* lines 79-81: get_anchor_text returns
Extract ==
    /\ pc = "extract"
    /\ calls' = Append(calls, << "extract", page, target_length >>)
    /\ \E t \in AnchorTexts(page) : anchor_text' = t
    /\ pc' = "prompt"
    /\ UNCHANGED << env, dest_file, writes, err, total_pages, task_type,
                    text_content, range_next, page_num, page, image_base64,
                    PROMPT, messages, response, text_output, final_output, responses >>

\* lines 79-81: get_anchor_text raises
ExtractRaises ==
    /\ pc = "extract"
    /\ calls' = Append(calls, << "extract", page, target_length >>)
    /\ Raise("ExtractError")
    /\ UNCHANGED << env, dest_file, writes, total_pages, task_type,
                    text_content, range_next, page_num, page, image_base64,
                    anchor_text, PROMPT, messages, response, text_output, final_output,
                    responses >>

\* lines 87-98: the request of one page
MessagesWithHistory(prompt, image) ==
    << [ role |-> "user",
         content |->
           << [ type |-> "text", text |-> prompt \o text_content ],
              [ type |-> "image_url",
                image_url |-> [ url |-> DataUrlPrefix \o image ] ] >> ] >>
Messages(prompt, image) ==
    << [ role |-> "user",
         content |->
           << [ type |-> "text", text |-> prompt ],
              [ type |-> "image_url",
                image_url |-> [ url |-> DataUrlPrefix \o image ] ] >> ] >>

\* lines 84-98
BuildPrompt ==
    /\ pc = "prompt"
    /\ PROMPT' = get_prompt(task_type, anchor_text)
    /\ messages' = Messages(PROMPT', image_base64)
    /\ pc' = "infer"
    /\ UNCHANGED << env, dest_file, writes, err, total_pages, task_type,
                    text_content, range_next, page_num, page, image_base64,
                    anchor_text, response, text_output, final_output, calls, responses >>

\* lines 104-113: openai.chat.completions.create raises
InferRaises ==
    /\ pc = "infer"
    /\ calls' = Append(calls, << "infer", page, messages >>)
    /\ Raise("APIError")
    /\ UNCHANGED << env, dest_file, writes, total_pages, task_type,
                    text_content, range_next, page_num, page, image_base64,
                    anchor_text, PROMPT, messages, response, text_output,
                    final_output, responses >>

\* the completions the service may answer with
ChatCompletions ==
    { [ choices |-> <<>> ] }
        \cup { [ choices |-> << [ message |-> [ content |-> c ] ] >> ] :
                 c \in Contents }

\* lines 104-113: openai.chat.completions.create returns
Infer ==
    /\ pc = "infer"
    /\ calls' = Append(calls, << "infer", page, messages >>)
    /\ \E r \in ChatCompletions : response' = << r >>
    /\ pc' = "content"
    /\ UNCHANGED << env, dest_file, writes, err, total_pages, task_type,
                    text_content, range_next, page_num, page, image_base64,
                    anchor_text, PROMPT, messages, text_output, final_output,
                    responses >>

\* line 114: response.choices[0] of an empty list raises IndexError
ReadContentNoChoicesRetry ==
    /\ pc = "content"
    /\ response[1].choices = <<>>
    /\ pc' = "infer"
    /\ UNCHANGED << env, dest_file, writes, err, total_pages, task_type,
                    text_content, range_next, page_num, page, image_base64,
                    anchor_text, PROMPT, messages, response, text_output,
                    final_output, calls, responses >>
ReadContentNoChoices ==
    /\ pc = "content"
    /\ response[1].choices = <<>>
    /\ Raise("IndexError")
    /\ UNCHANGED << env, dest_file, writes, total_pages, task_type,
                    text_content, range_next, page_num, page, image_base64,
                    anchor_text, PROMPT, messages, response, text_output,
                    final_output, calls, responses >>

\* lines 114-115: text_output = response.choices[0].message.content
ReadContent ==
    /\ pc = "content"
    /\ response[1].choices # <<>>
    /\ text_output' = response[1].choices[1].message.content
    /\ responses' = Append(responses, text_output')
    /\ pc' = "append"
    /\ UNCHANGED << env, dest_file, writes, err, total_pages, task_type,
                    text_content, range_next, page_num, page, image_base64,
                    anchor_text, PROMPT, messages, response, final_output,
                    calls >>

\* line 125: text_content += text_output + "\n"
AccumulateReplace(tc, out) == out \o <<NL>>
AccumulateSkipEmpty(tc, out) ==
    IF out = <<>> THEN tc ELSE tc \o out \o <<NL>>
Accumulate(tc, out) == tc \o out \o <<NL>>

\* line 125: None + "\n" raises TypeError
AppendRaises ==
    /\ pc = "append"
    /\ text_output = None
    /\ Raise("TypeError")
    /\ UNCHANGED << env, dest_file, writes, total_pages, task_type,
                    text_content, range_next, page_num, page, image_base64,
                    anchor_text, PROMPT, messages, response, text_output, final_output,
                    calls, responses >>

\* line 125
AppendTextSkipped ==
    /\ pc = "append"
    /\ text_output # None
    /\ pc' = "check"
    /\ UNCHANGED << env, dest_file, writes, err, total_pages, task_type,
                    text_content, range_next, page_num, page, image_base64,
                    anchor_text, PROMPT, messages, response, text_output,
                    final_output, calls, responses >>
AppendTextSavingPage ==
    /\ pc = "append"
    /\ text_output # None
    /\ text_content' = Accumulate(text_content, text_output)
    /\ writes' = writes + 1
    /\ pc' = "check"
    /\ UNCHANGED << env, dest_file, err, total_pages, task_type,
                    range_next, page_num, page, image_base64, anchor_text,
                    PROMPT, messages, response, text_output, final_output,
                    calls, responses >>
AppendText ==
    /\ pc = "append"
    /\ text_output # None
    /\ text_content' = Accumulate(text_content, text_output)
    /\ pc' = "check"
    /\ UNCHANGED << env, dest_file, writes, err, total_pages, task_type,
                    range_next, page_num, page, image_base64, anchor_text,
                    PROMPT, messages, response, text_output, final_output, calls,
                    responses >>

\* line 128: the sentinel in text_output
HasSentinelUnbroken(out) ==
    Contains(SelectSeq(text_content, LAMBDA c : c # NL), Sentinel)
HasSentinelPrefix(out) ==
    Len(out) >= Len(Sentinel) /\ SubSeq(out, 1, Len(Sentinel)) = Sentinel
HasSentinel(out) == Contains(out, Sentinel)

\* lines 128-130: break
Break ==
    /\ pc = "check"
    /\ HasSentinel(text_output)
    /\ pc' = "assemble"
    /\ UNCHANGED << env, dest_file, writes, err, total_pages, task_type,
                    text_content, range_next, page_num, page, image_base64,
                    anchor_text, PROMPT, messages, response, text_output, final_output,
                    calls, responses >>

\* line 128 is false: back to the loop head
Continue ==
    /\ pc = "check"
    /\ ~HasSentinel(text_output)
    /\ pc' = "for"
    /\ UNCHANGED << env, dest_file, writes, err, total_pages, task_type,
                    text_content, range_next, page_num, page, image_base64,
                    anchor_text, PROMPT, messages, response, text_output, final_output,
                    calls, responses >>

\* lines 133-140
FinalOutputMarkdownOn(tc, md, tt, tp) ==
    [ natural_text |-> Strip(tc),
      markdown |-> TRUE,
      task_type |-> tt,
      total_pages |-> tp,
      original_file_path |-> original_file_path,
      output_json_path |-> output_json_path ]
FinalOutputProcessed(tc, md, tt, tp) ==
    [ natural_text |-> Strip(tc),
      markdown |-> md,
      task_type |-> tt,
      total_pages |-> page,
      original_file_path |-> original_file_path,
      output_json_path |-> output_json_path ]
FinalOutput(tc, md, tt, tp) ==
    [ natural_text |-> Strip(tc),
      markdown |-> md,
      task_type |-> tt,
      total_pages |-> tp,
      original_file_path |-> original_file_path,
      output_json_path |-> output_json_path ]

\* lines 133-140
Assemble ==
    /\ pc = "assemble"
    /\ final_output' = << FinalOutput(text_content, markdown, task_type,
                                      total_pages) >>
    /\ pc' = "write"
    /\ UNCHANGED << env, dest_file, writes, err, total_pages, task_type,
                    text_content, range_next, page_num, page, image_base64,
                    anchor_text, PROMPT, messages, response, text_output, calls,
                    responses >>

\* lines 143-146: json.dump(final_output, f)
WriteFile ==
    /\ pc = "write"
    /\ dest_file' = final_output
    /\ writes' = writes + 1
    /\ pc' = "done"
    /\ UNCHANGED << env, err, total_pages, task_type, text_content,
                    range_next, page_num, page, image_base64, anchor_text,
                    PROMPT, messages, response, text_output, final_output, calls,
                    responses >>

Next ==
    \/ EnterMissing
    \/ Enter
    \/ ForNext
    \/ ForExhausted
    \/ Render
    \/ RenderRaises
    \/ Extract
    \/ ExtractRaises
    \/ BuildPrompt
    \/ InferRaises
    \/ Infer
    \/ ReadContentNoChoices
    \/ ReadContent
    \/ AppendRaises
    \/ AppendText
    \/ Break
    \/ Continue
    \/ Assemble
    \/ WriteFile

Spec == Init /\ [][Next]_vars

\* the function runs on while it has a step to take: its own statements
\* always execute, and every collaborator call returns or raises
FairSpec == Spec /\ WF_vars(Next)

TypeOK ==
    /\ pc \in {"enter", "for", "render", "extract", "prompt", "infer",
               "content", "append", "check", "assemble", "write", "done", "raised"}
    /\ page \in 0..total_pages
    /\ Len(responses) <= total_pages

-----------------------------------------------------------------------------
\* get_prompt on its own: a task-type identifier applied to a raw text

PromptNames ==
    {"default", "structure", "unknown_key", "", "Default", "STRUCTURE"}

RECURSIVE TextsUpTo(_)
TextsUpTo(n) ==
    IF n = 0 THEN { <<>> }
    ELSE TextsUpTo(n - 1)
           \cup { Append(t, c) : t \in TextsUpTo(n - 1), c \in {97, 32, NL} }

RawTexts == TextsUpTo(MaxRawLen)

InitPrompt ==
    /\ doc_exists = TRUE
    /\ doc_pages = 0
    /\ configured_task_type = "default"
    /\ markdown = TRUE
    /\ dest_before = <<>>
    /\ dest_file = <<>>
    /\ writes = 0
    /\ pc = "get_prompt"
    /\ err = ""
    /\ total_pages = 0
    /\ task_type \in PromptNames
    /\ text_content = <<>>
    /\ range_next = 0
    /\ page_num = 0
    /\ page = 0
    /\ image_base64 = <<>>
    /\ anchor_text \in RawTexts
    /\ PROMPT = <<>>
    /\ messages = <<>>
    /\ response = <<>>
    /\ text_output = <<>>
    /\ final_output = <<>>
    /\ calls = <<>>
    /\ responses = <<>>

\* lines 84-85 taken alone: PROMPT = get_prompt(task_type)(anchor_text)
CallGetPrompt ==
    /\ pc = "get_prompt"
    /\ PROMPT' = get_prompt(task_type, anchor_text)
    /\ pc' = "returned"
    /\ UNCHANGED << env, dest_file, writes, err, total_pages, task_type,
                    text_content, range_next, page_num, page, image_base64,
                    anchor_text, messages, response, text_output,
                    final_output, calls, responses >>

NextPrompt == CallGetPrompt

SpecPrompt == InitPrompt /\ [][NextPrompt]_vars

-----------------------------------------------------------------------------
\* Vocabulary of the properties

\* the collaborator and the page of every call made, in order
CallTrace == [ i \in 1..Len(calls) |-> << calls[i][1], calls[i][2] >> ]

\* render, extract, infer for pages 1..n, page by page
CallSequences(n) ==
    [ i \in 1..(3 * n) |->
        << CASE (i - 1) % 3 = 0 -> "render"
             [] (i - 1) % 3 = 1 -> "extract"
             [] OTHER -> "infer",
           ((i - 1) \div 3) + 1 >> ]

\* sep.join(parts)
RECURSIVE Join(_, _)
Join(parts, sep) ==
    IF parts = <<>> THEN <<>>
    ELSE IF Len(parts) = 1 THEN parts[1]
    ELSE parts[1] \o sep \o Join(Tail(parts), sep)

SentinelAt(k) == Contains(responses[k], Sentinel)

NoSentinel == \A k \in 1..Len(responses) : ~SentinelAt(k)

FirstSentinelAt(k) ==
    /\ k \in 1..Len(responses)
    /\ SentinelAt(k)
    /\ \A j \in 1..(k - 1) : ~SentinelAt(j)

Persisted == dest_file # <<>> /\ writes > 0

-----------------------------------------------------------------------------
\* C1: a finished run over N >= 1 pages in which no response contains the
\* sentinel has made exactly the calls render, extract, infer for pages
\* 1, 2, ..., N in that order, and the natural_text it has written is the N
\* responses joined by newlines, stripped.
C1_FullRun ==
    (pc = "done" /\ doc_pages >= 1 /\ NoSentinel)
        => /\ CallTrace = CallSequences(doc_pages)
           /\ Len(responses) = doc_pages
           /\ Persisted
           /\ dest_file[1].natural_text = Strip(Join(responses, <<NL>>))

C1_Witness ==
    /\ pc = "done"
    /\ doc_pages >= 2
    /\ NoSentinel
    /\ Len(responses) = doc_pages
    /\ responses[doc_pages] = << 32, 98, NL >>
    /\ responses[1] = << 32, 98, NL >>

\* C2: when page k is the first page whose response contains the sentinel,
\* no call is ever made for a page after k, and the run ends with exactly
\* the k call sequences of pages 1..k.
C2_EarlyStop ==
    \A k \in 1..Len(responses) :
        FirstSentinelAt(k)
            => /\ Len(responses) = k
               /\ \A i \in 1..Len(calls) : calls[i][2] <= k
               /\ pc \in {"append", "check", "assemble", "write", "done"}
               /\ CallTrace = CallSequences(k)

C2_Witness ==
    /\ pc = "done"
    /\ Len(responses) >= 2
    /\ Len(responses) < doc_pages
    /\ FirstSentinelAt(Len(responses))

\* C3: when the source path does not exist the run raises FileNotFoundError
\* with no collaborator call made and the destination never written.
C3_MissingSource ==
    ~doc_exists
        => /\ pc \in {"enter", "raised"}
           /\ pc = "raised" => err = "FileNotFoundError"
           /\ calls = <<>>
           /\ writes = 0
           /\ dest_file = dest_before

C3_Witness ==
    /\ ~doc_exists
    /\ pc = "raised"
    /\ err = "FileNotFoundError"
    /\ doc_pages >= 1
    /\ dest_before # <<>>

\* C4: when render, extract or infer raises for page k, the run is over with
\* that error: every call made is for a page up to k, the raising call is the
\* last one, nothing has been assembled or written, the destination is as it
\* was before the run, and no further step is possible.
C4_CollaboratorRaises ==
    err \in {"RenderError", "ExtractError", "APIError"}
        => /\ pc = "raised"
           /\ \A i \in 1..Len(calls) : calls[i][2] <= page
           /\ calls[Len(calls)][2] = page
           /\ calls[Len(calls)][1]
                = CASE err = "RenderError" -> "render"
                    [] err = "ExtractError" -> "extract"
                    [] OTHER -> "infer"
           /\ final_output = <<>>
           /\ writes = 0
           /\ dest_file = dest_before
           /\ ~ENABLED Next

C4_Witness ==
    /\ err = "APIError"
    /\ pc = "raised"
    /\ page >= 2
    /\ Len(responses) = page - 1
    /\ dest_before # <<>>

\* C5: nothing is written before the run is done, a done run has written
\* its RunResult to the destination exactly once, the write is the step that
\* ends the run, and every collaborator call precedes it.
C5_SingleWrite ==
    /\ [](pc # "done" => writes = 0 /\ dest_file = dest_before)
    /\ [](pc = "done"
            => writes = 1 /\ final_output # <<>> /\ dest_file = final_output)
    /\ [][writes' # writes
            => pc = "write" /\ pc' = "done" /\ calls' = calls]_vars
    /\ [][calls' # calls => writes' = 0]_vars
    /\ [][pc = "assemble" => pc' = "write"]_vars

C5_Witness ==
    /\ pc = "done"
    /\ writes = 1
    /\ Len(responses) >= 2
    /\ calls[Len(calls)][1] = "infer"
    /\ dest_before # <<>>
    /\ dest_file # dest_before

\* C6: a run that stopped at the sentinel on page k < N has written a
\* RunResult whose total_pages is N and whose natural_text is the responses
\* of pages 1..k, page k included, joined by newlines and stripped.
C6_EarlyStopResult ==
    \A k \in 1..Len(responses) :
        (pc = "done" /\ FirstSentinelAt(k) /\ k < doc_pages)
            => /\ Persisted
               /\ dest_file[1].total_pages = doc_pages
               /\ Len(responses) = k
               /\ Contains(dest_file[1].natural_text, Sentinel)
               /\ dest_file[1].natural_text
                    = Strip(Join(SubSeq(responses, 1, k), <<NL>>))

C6_Witness ==
    /\ pc = "done"
    /\ doc_pages = 3
    /\ Len(responses) = 2
    /\ FirstSentinelAt(2)
    /\ dest_file[1].total_pages = 3

\* the completion of the page in hand
NoChoices == response # <<>> /\ response[1].choices = <<>>

ContentIs(c) ==
    /\ response # <<>>
    /\ response[1].choices # <<>>
    /\ response[1].choices[1].message.content = c

\* lines 114 and 125 have run on the completion, or raised
ReplyHandled == pc \notin {"infer", "content", "append"}

InferCalls(p) ==
    Cardinality({ i \in 1..Len(calls) :
                    calls[i][1] = "infer" /\ calls[i][2] = p })

\* C7 as claimed: once a completion with no choices or with empty content
\* has been handled, the run has raised, with one infer call for the page.
C7_EmptyReplyRaises ==
    (ReplyHandled /\ (NoChoices \/ ContentIs(<<>>) \/ ContentIs(None)))
        => /\ pc = "raised"
           /\ err # ""
           /\ InferCalls(page) = 1

\* C7: once a completion with no choices or with None content has been
\* handled the run has raised IndexError or TypeError, nothing is written;
\* a completion whose content is the empty string raises nothing; and no
\* page ever has a second infer call.
C7_NullReplyRaises ==
    /\ (ReplyHandled /\ NoChoices)
          => (pc = "raised" /\ err = "IndexError" /\ writes = 0)
    /\ (ReplyHandled /\ ContentIs(None))
          => (pc = "raised" /\ err = "TypeError" /\ writes = 0)
    /\ (pc = "check" /\ ContentIs(<<>>)) => err = ""
    /\ \A p \in 1..doc_pages : InferCalls(p) <= 1

C7_Witness ==
    /\ pc = "raised"
    /\ err = "IndexError"
    /\ NoChoices
    /\ page >= 2
    /\ InferCalls(page) = 1

\* C8: an empty-string response is appended as it is, followed by the
\* newline, without an error; the sentinel test then fails and the loop goes
\* on to the next page, or to the assembly when that was the last page.
C8_EmptyResponse ==
    [][ /\ (pc = "append" /\ text_output = <<>>)
            => /\ pc' = "check"
               /\ err' = ""
               /\ text_content' = text_content \o <<NL>>
        /\ (pc = "check" /\ text_output = <<>>)
            => /\ pc' = "for"
               /\ err' = ""
               /\ text_content' = text_content
        /\ (pc = "for" /\ responses # <<>> /\ text_output = <<>>)
            => /\ err' = ""
               /\ IF page < doc_pages
                    THEN pc' = "render" /\ page' = page + 1
                    ELSE pc' = "assemble" ]_vars

C8_Witness ==
    /\ pc = "done"
    /\ Len(responses) >= 2
    /\ responses[1] = <<>>
    /\ responses[Len(responses)] = <<>>
    /\ Len(text_content) >= 2
    /\ dest_file # dest_before

\* C9 as claimed: the prompt of every page is the template of the
\* configured task type applied to the page's anchor text, and the written
\* RunResult carries the configured task type.
C9_TaskTypeToggle ==
    /\ pc \in {"infer", "content", "append", "check"}
          => PROMPT = PROMPTS_SYS(configured_task_type, anchor_text)
    /\ pc = "done" => dest_file[1].task_type = configured_task_type

\* C10: for an identifier that is neither default nor structure, and any
\* raw text, get_prompt yields the fixed placeholder and raises nothing.
C10_UnknownTaskType ==
    (pc = "returned" /\ task_type \notin {"default", "structure"})
        => PROMPT = InvalidPromptText /\ err = ""

C10_Witness ==
    /\ pc = "returned"
    /\ task_type = "unknown_key"
    /\ anchor_text = << 97, NL >>
    /\ PROMPT = InvalidPromptText

\* the template instruction of a recognised task type
InstructionOf(key) ==
    IF key = "default" THEN DefaultInstruction ELSE StructureInstruction

\* sub occurs in s at position i
OccursAt(s, sub, i) ==
    /\ i >= 1
    /\ i + Len(sub) - 1 <= Len(s)
    /\ SubSeq(s, i, i + Len(sub) - 1) = sub

\* C11: for task types default and structure and any raw text, the prompt
\* is the instruction text, then the marker RAW_TEXT_START, later the raw
\* text exactly as given, later the marker RAW_TEXT_END, in that order.
C11_MarkersAroundRawText ==
    (pc = "returned" /\ task_type \in {"default", "structure"})
        => \E i \in 2..Len(PROMPT) :
             /\ OccursAt(PROMPT, RAW_TEXT_START, i)
             /\ SubSeq(PROMPT, 1, i - 1) = InstructionOf(task_type)
             /\ \E j \in (i + Len(RAW_TEXT_START))..(Len(PROMPT) + 1) :
                  /\ OccursAt(PROMPT, anchor_text, j)
                  /\ \E k \in (j + Len(anchor_text))..Len(PROMPT) :
                       /\ OccursAt(PROMPT, RAW_TEXT_END, k)
                       /\ k + Len(RAW_TEXT_END) - 1 = Len(PROMPT)

C11_Witness ==
    /\ pc = "returned"
    /\ task_type = "structure"
    /\ anchor_text = << 32, 97 >>
    /\ Contains(PROMPT, RAW_TEXT_START \o << NL, 32, 97, NL >> \o RAW_TEXT_END)

\* the request the run makes for page p when its anchor text is t
RequestFor(p, t) ==
    << [ role |-> "user",
         content |->
           << [ type |-> "text", text |-> get_prompt("default", t) ],
              [ type |-> "image_url",
                image_url |-> [ url |-> DataUrlPrefix \o RenderedPng(p) ] ]
           >> ] >>

\* C12: the written RunResult stores the markdown flag the caller passed,
\* and everything else the run produces is given by the document and the
\* collaborators' answers alone: each call by its page, the other RunResult
\* fields by the responses, the page count and the paths.
C12_MarkdownPassthrough ==
    /\ pc = "done"
          => /\ dest_file[1].markdown = markdown
             /\ dest_file[1]
                  = [ natural_text |-> Strip(Join(responses, <<NL>>)),
                      markdown |-> markdown,
                      task_type |-> "default",
                      total_pages |-> doc_pages,
                      original_file_path |-> original_file_path,
                      output_json_path |-> output_json_path ]
    /\ \A i \in 1..Len(calls) :
          /\ calls[i][2] = ((i - 1) \div 3) + 1
          /\ calls[i][1] = "render" => calls[i][3] = target_longest_image_dim
          /\ calls[i][1] = "extract" => calls[i][3] = target_length
          /\ calls[i][1] = "infer"
                => \E t \in AnchorTexts(calls[i][2]) :
                      calls[i][3] = RequestFor(calls[i][2], t)

C12_Witness ==
    /\ pc = "done"
    /\ markdown = FALSE
    /\ dest_file[1].markdown = FALSE
    /\ Len(responses) >= 2
    /\ dest_before # <<>>

\* the pages for which a model response was requested, in call order
RECURSIVE InferPagesOf(_)
InferPagesOf(cs) ==
    IF cs = <<>> THEN <<>>
    ELSE IF cs[1][1] = "infer"
           THEN << cs[1][2] >> \o InferPagesOf(Tail(cs))
           ELSE InferPagesOf(Tail(cs))

InferPages == InferPagesOf(calls)

\* C13: in every run, finished, stopped early or aborted, the pages for
\* which a response is requested are 1, 2, ..., m for some m <= N: no gap,
\* no repeat, increasing from 1.
C13_PagesInOrder ==
    /\ Len(InferPages) <= doc_pages
    /\ \A i \in 1..Len(InferPages) : InferPages[i] = i

C13_Witness ==
    /\ pc = "raised"
    /\ err = "APIError"
    /\ InferPages = << 1, 2 >>
    /\ doc_pages >= 3

\* every response followed by one newline, in order
RECURSIVE Lines(_)
Lines(rs) ==
    IF rs = <<>> THEN <<>>
    ELSE rs[1] \o <<NL>> \o Lines(Tail(rs))

LastCall == calls[Len(calls)]

\* a call to collaborator fn is made in this step
Calling(fn) ==
    /\ Len(calls') = Len(calls) + 1
    /\ calls'[Len(calls')][1] = fn

\* C14: in every step, a render call for page p comes only when the appends
\* of all pages before p are complete and directly after the infer call of
\* page p - 1; the extract call follows the render call of the same page;
\* the prompt is built after the extract call, without a call; the infer
\* call follows with that prompt; the append follows the infer call of the
\* same page.
C14_PageChain ==
    [][ /\ Calling("render")
            => /\ calls'[Len(calls')][2] = page
               /\ Len(responses) = page - 1
               /\ text_content = Lines(responses)
               /\ \/ calls = <<>> /\ page = 1
                  \/ calls # <<>> /\ LastCall[1] = "infer"
                       /\ LastCall[2] = page - 1
        /\ Calling("extract")
            => /\ calls'[Len(calls')][2] = page
               /\ LastCall = << "render", page, target_longest_image_dim >>
               /\ Len(responses) = page - 1
        /\ PROMPT' # PROMPT
            => /\ calls' = calls
               /\ LastCall = << "extract", page, target_length >>
               /\ PROMPT' = get_prompt(task_type, anchor_text)
        /\ Calling("infer")
            => /\ calls'[Len(calls')][2] = page
               /\ LastCall = << "extract", page, target_length >>
               /\ calls'[Len(calls')][3][1].content[1].text = PROMPT
               /\ PROMPT = get_prompt(task_type, anchor_text)
               /\ Len(responses) = page - 1
        /\ text_content' # text_content
            => /\ calls' = calls
               /\ LastCall[1] = "infer"
               /\ LastCall[2] = page
               /\ Len(responses) = page
               /\ text_content'
                    = text_content \o responses[page] \o <<NL>> ]_vars

C14_Witness ==
    /\ pc = "extract"
    /\ page = 2
    /\ Len(calls) = 4
    /\ Len(responses) = 1
    /\ responses[1] # <<>>
    /\ text_content = responses[1] \o <<NL>>

\* the responses whose append has run
Accumulated ==
    IF pc = "append" \/ err = "TypeError"
      THEN SubSeq(responses, 1, Len(responses) - 1)
      ELSE responses

\* C15: at every point the accumulated text is the responses of the pages
\* accumulated so far, in page order, each followed by one newline.
C15_AccumulatedInOrder ==
    text_content = Lines(Accumulated)

C15_Witness ==
    /\ pc = "check"
    /\ page = 2
    /\ responses = << << 32, 98, NL >>, << 32, 98, NL >> >>
    /\ text_content = << 32, 98, NL, NL, 32, 98, NL, NL >>

\* the loop has ended on the last page or on the first sentinel page
LoopEnded ==
    \/ /\ Len(responses) = doc_pages
       /\ range_next = doc_pages
       /\ \A k \in 1..(doc_pages - 1) : ~SentinelAt(k)
    \/ /\ responses # <<>>
       /\ FirstSentinelAt(Len(responses))

\* C16: every run ends, written or raised; the loop never takes more than
\* N iterations; and it is left for the final write only when all N pages
\* are processed or on the first page whose response contains the sentinel.
C16_Terminates ==
    /\ <>(pc \in {"done", "raised"})
    /\ [](pc = "raised" => err # "" /\ writes = 0)
    /\ [](pc = "done" => err = "" /\ writes = 1)
    /\ [](range_next <= doc_pages /\ Len(InferPages) <= doc_pages)
    /\ [](pc \in {"assemble", "write", "done"} => LoopEnded)

C16_Witness ==
    /\ pc = "done"
    /\ doc_pages >= 2
    /\ range_next = doc_pages
    /\ SentinelAt(doc_pages)
    /\ writes = 1

\* the nonempty anchor text of page q
AnchorMark(q) == << 112, 48 + q >>

\* C17: the inference request of a page, as built and as sent, is one user
\* turn of exactly two parts: the prompt built from the anchor text of its
\* own page, then the data URL of its own page's rendered image; it holds no
\* other page's anchor text or image and no earlier response.
C17_RequestOfOnePage ==
    /\ pc = "infer"
          => /\ Len(messages) = 1
             /\ DOMAIN messages[1] = {"role", "content"}
             /\ messages[1].role = "user"
             /\ Len(messages[1].content) = 2
             /\ messages[1].content[1].type = "text"
             /\ anchor_text \in AnchorTexts(page)
             /\ messages[1].content[1].text
                  = get_prompt(task_type, anchor_text)
             /\ messages[1].content[2].type = "image_url"
             /\ messages[1].content[2].image_url.url
                  = DataUrlPrefix \o RenderedPng(page)
             /\ \A q \in (1..doc_pages) \ {page} :
                   /\ ~Contains(messages[1].content[1].text, AnchorMark(q))
                   /\ messages[1].content[2].image_url.url
                        # DataUrlPrefix \o RenderedPng(q)
             /\ \A k \in 1..(page - 1) :
                   responses[k] # <<>>
                      => ~Contains(messages[1].content[1].text, responses[k])
    /\ (calls # <<>> /\ LastCall[1] = "infer"
           /\ pc \in {"content", "append", "check", "raised"})
          => LastCall = << "infer", page, messages >>

C17_Witness ==
    /\ pc = "content"
    /\ page = 2
    /\ anchor_text = AnchorMark(2)
    /\ responses = << SubSeq(Sentinel, 1, 4) >>
    /\ LastCall[1] = "infer"
    /\ LastCall[3][1].content[1].text = PromptDefault(AnchorMark(2))

\* the sentinel lies across the end of response p and the start of p + 1
SplitAt(p) ==
    /\ p + 1 <= Len(responses)
    /\ ~SentinelAt(p)
    /\ ~SentinelAt(p + 1)
    /\ Contains(responses[p] \o responses[p + 1], Sentinel)

\* C18: when no single response contains the sentinel, also when it lies
\* split across two consecutive responses, the run does not stop early: the
\* loop is left only with all N pages processed; and the accumulated text,
\* which has a newline between the two, does not contain the sentinel.
C18_PerPageDetection ==
    NoSentinel
        => /\ pc \in {"assemble", "write", "done"}
                 => Len(responses) = doc_pages /\ range_next = doc_pages
           /\ \A p \in 1..Len(responses) :
                 SplitAt(p) => pc \notin {"assemble", "write", "done"}
                                 \/ Len(InferPages) = doc_pages
           /\ ~Contains(text_content, Sentinel)

C18_Witness ==
    /\ pc = "done"
    /\ doc_pages = 3
    /\ Len(responses) = 3
    /\ SplitAt(1)
    /\ NoSentinel
    /\ InferPages = << 1, 2, 3 >>

\* C19: for an existing document of 0 pages no collaborator is ever called
\* and the run still ends with the single write, of a RunResult with empty
\* natural_text and total_pages 0.
C19_EmptyDocument ==
    (doc_exists /\ doc_pages = 0)
        => /\ calls = <<>>
           /\ err = ""
           /\ pc \in {"enter", "for", "assemble", "write", "done"}
           /\ pc = "done"
                 => /\ writes = 1
                    /\ dest_file # <<>>
                    /\ dest_file[1].natural_text = <<>>
                    /\ dest_file[1].total_pages = 0

C19_Witness ==
    /\ doc_exists
    /\ doc_pages = 0
    /\ pc = "done"
    /\ writes = 1
    /\ dest_before # <<>>
    /\ dest_file # dest_before
====
